---- MODULE Spec2Model ----
(***************************************************************************)
(* Model of sentiment-aura/backend/main.py:                                *)
(*   - the audio relay  websocket_deepgram_proxy  (two forwarding loops    *)
(*     between a browser client and the speech vendor), and                *)
(*   - the text path  process_text  with its response repair and the       *)
(*     heuristic scorer  fallback_sentiment_analysis.                      *)
(* The two paths share no state; each has its own specification.           *)
(* GET /health and GET /test_openai answer with fixed or diagnostic        *)
(* dictionaries and are left out; test_openai.py is a command-line script  *)
(* that imports nothing from main.py.                                      *)
(***************************************************************************)
EXTENDS Integers, Sequences, FiniteSets, TLC

(***************************************************************************)
(* Bounds of the model (not program constants).                            *)
(***************************************************************************)
\* client frames sent during one relay session
MaxClientMsgs == 2
\* vendor messages sent during one relay session
MaxVendorMsgs == 2
\* fragments a text given to the scorer is made of
MaxFrags == 2
\* HTTP requests served
MaxRequests == 1

(***************************************************************************)
(*                          AUDIO RELAY                                    *)
(***************************************************************************)
VARIABLES
    dgKey,          \* DEEPGRAM_API_KEY in the environment: [set, lead, body, trail]
    phase,          \* position of websocket_deepgram_proxy
    pcF,            \* position of forward_from_deepgram
    pcT,            \* position of forward_to_deepgram
    clientSent,     \* frames the client has sent, in order (their kinds)
    clientRead,     \* how many of them websocket.receive() has returned
    clientGone,     \* the client has disconnected
    vendorSent,     \* messages the vendor has sent, in order (their kinds)
    vendorRead,     \* how many of them the async-for over deepgram_ws has yielded
    vendorState,    \* deepgram_ws: "none", "open", "closed"
    vendorClose,    \* the close event [code, reason] seen on deepgram_ws
    toVendor,       \* frames written to deepgram_ws, in order
    toClient,       \* frames written to the client websocket and delivered, in order
    closeOutcome,   \* websocket.close(): "none", "closed", "alreadyClosed" (error swallowed)
    vendorOpened,   \* websockets.connect was attempted
    vendorReleased, \* the async-with block has closed deepgram_ws
    authHeader,     \* length of the token put in the Authorization header (0: none)
    chunk_count,    \* forward_to_deepgram's counter of forwarded audio chunks
    tExit,          \* why forward_to_deepgram left its loop
    fExit,          \* why forward_from_deepgram left its loop
    tNotified,      \* forward_to_deepgram called send_text with an Error message
    connectResult   \* how websockets.connect ended: [kind, status]

relayVars == <<dgKey, phase, pcF, pcT, clientSent, clientRead, clientGone,
               vendorSent, vendorRead, vendorState, vendorClose, toVendor, toClient,
               closeOutcome, vendorOpened, vendorReleased, authHeader,
               chunk_count, tExit, fExit, tNotified, connectResult>>

(***************************************************************************)
(* The HTTP side: the environment, the cached client, and the one request  *)
(* in progress.                                                            *)
(***************************************************************************)
VARIABLES
    apiKey,         \* OPENAI_API_KEY in the environment
    pydanticLax,    \* the installed pydantic turns numbers in list[str] into text
    openai_client,  \* _openai_client holds a client
    tpc,            \* position of the request handler: idle, awaiting, responded
    endpoint,       \* the route of the request in progress
    reqText,        \* request.text
    outcome,        \* how the awaited model call ended
    response,       \* what the handler answers: [status, detail, result]
    credChecked,    \* the handler has called get_openai_client()
    modelCalls,     \* calls of call_openai by the handler
    fallbackCalls,  \* calls of fallback_sentiment_analysis by the handler
    served          \* requests received so far

textVars == <<apiKey, pydanticLax, openai_client, tpc, endpoint, reqText, outcome, response,
              credChecked, modelCalls, fallbackCalls, served>>

\* len(deepgram_api_key) < 20 rejects the key
MinKeyLen == 20

\* Values of the environment variable: unset, empty, blank, short (also when
\* padding brings the raw length to the limit), and long enough. body counts
\* the characters strip() keeps, lead and trail the whitespace it removes.
Key(set, lead, body, trail) == [set |-> set, lead |-> lead, body |-> body, trail |-> trail]
Keys ==
    { Key(FALSE, 0, 0, 0),
      Key(TRUE, 0, 0, 0),
      Key(TRUE, 1, 0, 1),
      Key(TRUE, 0, 1, 0),
      Key(TRUE, 0, MinKeyLen - 1, 0),
      Key(TRUE, 1, MinKeyLen - 1, 0),
      Key(TRUE, 0, MinKeyLen - 1, 1),
      Key(TRUE, 0, MinKeyLen, 0),
      Key(TRUE, 1, MinKeyLen + 1, 1) }

\* len(deepgram_api_key) of the raw value
RawLen(k) == k.lead + k.body + k.trail
\* len(deepgram_api_key.strip())
StrippedLen(k) == k.body

\* `not deepgram_api_key` on the raw value: None or ""
KeyMissing(k) == ~k.set \/ RawLen(k) = 0

\* the length check without the strip()
KeyTooShort_NoStrip(k) == RawLen(k) = 0 \/ RawLen(k) < MinKeyLen

\* `not deepgram_api_key or len(deepgram_api_key) < 20` after strip()
KeyTooShort(k) == StrippedLen(k) = 0 \/ StrippedLen(k) < MinKeyLen

\* websocket.receive() returns {"type": "websocket.receive"} with either
\* "bytes" or "text", until it returns the disconnect. The server in use
\* (uvicorn) produces no other shape and receive() raises nothing before the
\* disconnect has been returned, so the clauses of forward_to_deepgram for an
\* unknown shape (502-504) and for exceptions of receive() (505-522) never run.
ClientKinds == {"bytes", "text"}
\* kinds of message the vendor connection yields: str or bytes
VendorKinds == {"str", "bytes"}
\* close events of the vendor connection: normal closure, error closure with a
\* reason, abnormal closure without a close frame
CloseEvents ==
    { [code |-> 1000, reason |-> ""],
      [code |-> 1011, reason |-> "timeout"],
      [code |-> 1006, reason |-> ""] }
\* websockets raises ConnectionClosedOK for codes 1000 and 1001, and the
\* async-for over a connection ends silently on it
ClosedOK(c) == c.code \in {1000, 1001}
\* ways websockets.connect can fail: the vendor rejects the handshake with an
\* HTTP status (InvalidStatusCode carries it), or anything else
ConnectFailures ==
    { [kind |-> "InvalidStatusCode", status |-> 401],
      [kind |-> "InvalidStatusCode", status |-> 403],
      [kind |-> "OSError", status |-> 0] }
NoConnect == [kind |-> "none", status |-> 0]
\* json.dumps({"type": "Error", "message": ...}) sent with websocket.send_text
ErrorMsg(by, note, reason, status) ==
    [type |-> "Error", by |-> by, id |-> 0, frame |-> "text",
     note |-> note, reason |-> reason, status |-> status]
\* a vendor message forwarded with send_text / send_bytes
DataMsg(i, frame) ==
    [type |-> "Data", by |-> "vendor", id |-> i, frame |-> frame,
     note |-> "", reason |-> "", status |-> 0]
\* `e.reason or 'Unknown reason'`
ReasonOr(c) == IF c.reason = "" THEN "Unknown reason" ELSE c.reason

NoClose == [code |-> 0, reason |-> ""]
VendorClosed == vendorState = "closed"
\* a send on the client websocket reaches the client
ClientReachable == ~clientGone /\ closeOutcome = "none"
\* await websocket.send_text(...) / send_bytes(...): delivered, or it raises
\* and every call site in the session swallows the exception
SendToClient(out, m) == IF ClientReachable THEN Append(out, m) ELSE out

RelayInit ==
    /\ dgKey \in Keys
    /\ phase = "accepted"
    /\ pcF = "idle"
    /\ pcT = "idle"
    /\ clientSent = <<>>
    /\ clientRead = 0
    /\ clientGone = FALSE
    /\ vendorSent = <<>>
    /\ vendorRead = 0
    /\ vendorState = "none"
    /\ vendorClose = NoClose
    /\ toVendor = <<>>
    /\ toClient = <<>>
    /\ closeOutcome = "none"
    /\ vendorOpened = FALSE
    /\ vendorReleased = FALSE
    /\ authHeader = 0
    /\ chunk_count = 0
    /\ tExit = "none"
    /\ fExit = "none"
    /\ tNotified = FALSE
    /\ connectResult = NoConnect

(* ---------------- the two endpoints (environment) ---------------- *)

\* the browser sends a frame; uvicorn queues it for websocket.receive()
ClientSends(k) ==
    /\ phase \in {"connecting", "session"}
    /\ ~clientGone
    /\ closeOutcome = "none"
    /\ Len(clientSent) < MaxClientMsgs
    /\ clientSent' = Append(clientSent, k)
    /\ UNCHANGED <<dgKey, phase, pcF, pcT, clientRead, clientGone, vendorSent,
                   vendorRead, vendorState, vendorClose, toVendor, toClient,
                   closeOutcome, vendorOpened, vendorReleased, authHeader,
                   chunk_count, tExit, fExit, tNotified, connectResult>>
    /\ UNCHANGED textVars

\* the browser closes its socket: receive() returns websocket.disconnect once
\* the queued frames are read, and sends to the client fail from now on
ClientDisconnects ==
    /\ phase = "session"
    /\ ~clientGone
    /\ closeOutcome = "none"
    /\ clientGone' = TRUE
    /\ UNCHANGED <<dgKey, phase, pcF, pcT, clientSent, clientRead, vendorSent,
                   vendorRead, vendorState, vendorClose, toVendor, toClient,
                   closeOutcome, vendorOpened, vendorReleased, authHeader,
                   chunk_count, tExit, fExit, tNotified, connectResult>>
    /\ UNCHANGED textVars

\* the vendor sends a transcript message; websockets queues it for recv()
VendorSends(k) ==
    /\ phase = "session"
    /\ vendorState = "open"
    /\ Len(vendorSent) < MaxVendorMsgs
    /\ vendorSent' = Append(vendorSent, k)
    /\ UNCHANGED <<dgKey, phase, pcF, pcT, clientSent, clientRead, clientGone,
                   vendorRead, vendorState, vendorClose, toVendor, toClient,
                   closeOutcome, vendorOpened, vendorReleased, authHeader,
                   chunk_count, tExit, fExit, tNotified, connectResult>>
    /\ UNCHANGED textVars

\* the vendor connection closes (close frame, or the transport is lost)
VendorCloses(c) ==
    /\ phase = "session"
    /\ vendorState = "open"
    /\ vendorState' = "closed"
    /\ vendorClose' = c
    /\ UNCHANGED <<dgKey, phase, pcF, pcT, clientSent, clientRead, clientGone,
                   vendorSent, vendorRead, toVendor, toClient,
                   closeOutcome, vendorOpened, vendorReleased, authHeader,
                   chunk_count, tExit, fExit, tNotified, connectResult>>
    /\ UNCHANGED textVars

(* ---------------- websocket_deepgram_proxy ---------------- *)

\* accept(), then the two checks of the secret; a key that passes is stripped
\* and websockets.connect is called with it in the Authorization header
CheckKey ==
    /\ phase = "accepted"
    /\ IF KeyMissing(dgKey)
         THEN /\ toClient' = Append(toClient, ErrorMsg("proxy", "not_configured", "", 0))
              /\ closeOutcome' = "closed"
              /\ phase' = "rejected"
              /\ UNCHANGED <<vendorOpened, authHeader>>
         ELSE IF KeyTooShort(dgKey)
         THEN /\ toClient' = Append(toClient, ErrorMsg("proxy", "invalid_key", "", 0))
              /\ closeOutcome' = "closed"
              /\ phase' = "rejected"
              /\ UNCHANGED <<vendorOpened, authHeader>>
         ELSE /\ phase' = "connecting"
              /\ vendorOpened' = TRUE
              /\ authHeader' = StrippedLen(dgKey)
              /\ UNCHANGED <<toClient, closeOutcome>>
    /\ UNCHANGED <<dgKey, pcF, pcT, clientSent, clientRead, clientGone, vendorSent,
                   vendorRead, vendorState, vendorClose, toVendor, vendorReleased,
                   chunk_count, tExit, fExit, tNotified, connectResult>>
    /\ UNCHANGED textVars

\* websockets.connect returns: the session starts and gather() schedules both loops
ConnectOk ==
    /\ phase = "connecting"
    /\ phase' = "session"
    /\ vendorState' = "open"
    /\ pcF' = "recv"
    /\ pcT' = "receive"
    /\ connectResult' = [kind |-> "ok", status |-> 0]
    /\ UNCHANGED <<dgKey, clientSent, clientRead, clientGone, vendorSent, vendorRead,
                   vendorClose, toVendor, toClient, closeOutcome, vendorOpened,
                   vendorReleased, authHeader, chunk_count, tExit, fExit, tNotified>>
    /\ UNCHANGED textVars

\* the failure handled without the InvalidStatusCode clause
ConnectFails_GenericOnly(o) ==
    /\ phase = "connecting"
    /\ connectResult' = o
    /\ toClient' = Append(toClient, ErrorMsg("proxy", "proxy_error", o.kind, 0))
    /\ closeOutcome' = "closed"
    /\ phase' = "connectFailed"
    /\ UNCHANGED <<dgKey, pcF, pcT, clientSent, clientRead, clientGone, vendorSent,
                   vendorRead, vendorState, vendorClose, toVendor, vendorOpened,
                   vendorReleased, authHeader, chunk_count, tExit, fExit, tNotified>>
    /\ UNCHANGED textVars

\* websockets.connect raises: InvalidStatusCode (handler at 558) or any other
\* exception (handler at 570); either sends one Error and closes the client
ConnectFails(o) ==
    /\ phase = "connecting"
    /\ connectResult' = o
    /\ toClient' = Append(toClient,
            IF o.kind = "InvalidStatusCode"
            THEN ErrorMsg("proxy", "connect_http", "", o.status)
            ELSE ErrorMsg("proxy", "proxy_error", o.kind, 0))
    /\ closeOutcome' = "closed"
    /\ phase' = "connectFailed"
    /\ UNCHANGED <<dgKey, pcF, pcT, clientSent, clientRead, clientGone, vendorSent,
                   vendorRead, vendorState, vendorClose, toVendor, vendorOpened,
                   vendorReleased, authHeader, chunk_count, tExit, fExit, tNotified>>
    /\ UNCHANGED textVars

\* a task of gather() has returned
Exited(pc) == pc = "done"

\* the wait returning as soon as one of the two tasks has finished
JoinReady_FirstCompleted == Exited(pcF) \/ Exited(pcT)

\* asyncio.gather(forward_from_deepgram(), forward_to_deepgram(),
\* return_exceptions=True) returns once both tasks have finished
JoinReady == Exited(pcF) /\ Exited(pcT)

\* after gather: the finally block closes the client websocket (an error of an
\* already closed connection is swallowed), then the async-with block closes
\* deepgram_ws
Teardown ==
    /\ phase = "session"
    /\ JoinReady
    /\ closeOutcome' = IF clientGone THEN "alreadyClosed" ELSE "closed"
    /\ vendorReleased' = TRUE
    /\ phase' = "ended"
    /\ UNCHANGED <<dgKey, pcF, pcT, clientSent, clientRead, clientGone, vendorSent,
                   vendorRead, vendorState, vendorClose, toVendor, toClient,
                   vendorOpened, authHeader, chunk_count, tExit, fExit, tNotified, connectResult>>
    /\ UNCHANGED textVars

(* ---------------- forward_from_deepgram ---------------- *)

\* isinstance(message, str): send_text, otherwise send_bytes
ClientFrame(k) == IF k = "str" THEN "text" ELSE "binary"

\* one turn of `async for message in deepgram_ws`: the next queued message is
\* sent to the client; a failing send is printed and the loop continues
F_Forward ==
    /\ phase = "session"
    /\ pcF = "recv"
    /\ vendorRead < Len(vendorSent)
    /\ vendorRead' = vendorRead + 1
    /\ toClient' = SendToClient(toClient,
                        DataMsg(vendorRead + 1, ClientFrame(vendorSent[vendorRead + 1])))
    /\ UNCHANGED <<dgKey, phase, pcF, pcT, clientSent, clientRead, clientGone,
                   vendorSent, vendorState, vendorClose, toVendor, closeOutcome,
                   vendorOpened, vendorReleased, authHeader, chunk_count, tExit,
                   fExit, tNotified, connectResult>>
    /\ UNCHANGED textVars

\* the queue is drained and the connection is closed: the iteration ends
\* silently on a normal closure, and raises ConnectionClosed otherwise, which
\* is reported to the client; the task returns either way
F_VendorClosed ==
    /\ phase = "session"
    /\ pcF = "recv"
    /\ vendorRead = Len(vendorSent)
    /\ VendorClosed
    /\ IF ClosedOK(vendorClose)
         THEN /\ fExit' = "closedOK"
              /\ UNCHANGED toClient
         ELSE /\ fExit' = "closedError"
              /\ toClient' = SendToClient(toClient,
                     ErrorMsg("from_deepgram", "vendor_closed", ReasonOr(vendorClose), 0))
    /\ pcF' = "done"
    /\ UNCHANGED <<dgKey, phase, pcT, clientSent, clientRead, clientGone,
                   vendorSent, vendorRead, vendorState, vendorClose, toVendor,
                   closeOutcome, vendorOpened, vendorReleased, authHeader,
                   chunk_count, tExit, tNotified, connectResult>>
    /\ UNCHANGED textVars

(* ---------------- forward_to_deepgram ---------------- *)

\* every client frame written to the vendor as binary
VendorFrame_AlwaysBinary(k) == "binary"

\* deepgram_ws.send(data["bytes"]) writes a binary frame, send(data["text"]) a
\* text frame
VendorFrame(k) == IF k = "bytes" THEN "binary" ELSE "text"

\* websocket.receive() has a queued frame to return
FrameQueued == clientRead < Len(clientSent)

\* the binary branch telling the client of the closed vendor connection but
\* staying in the loop
T_Bytes_NoBreak ==
    /\ phase = "session"
    /\ pcT = "receive"
    /\ clientRead < Len(clientSent)
    /\ clientSent[clientRead + 1] = "bytes"
    /\ clientRead' = clientRead + 1
    /\ IF ~VendorClosed
         THEN /\ toVendor' = Append(toVendor,
                     [id |-> clientRead + 1, frame |-> VendorFrame("bytes")])
              /\ chunk_count' = chunk_count + 1
              /\ UNCHANGED <<toClient, tNotified>>
         ELSE /\ toClient' = SendToClient(toClient,
                     ErrorMsg("to_deepgram", "vendor_lost", ReasonOr(vendorClose),
                              vendorClose.code))
              /\ tNotified' = TRUE
              /\ UNCHANGED <<toVendor, chunk_count>>
    /\ UNCHANGED <<dgKey, phase, pcF, pcT, tExit, clientSent, clientGone, vendorSent,
                   vendorRead, vendorState, vendorClose, closeOutcome, vendorOpened,
                   vendorReleased, authHeader, fExit, connectResult>>
    /\ UNCHANGED textVars

\* receive() returns a frame with "bytes": it is sent to the vendor and counted;
\* if the vendor connection is closed, the client is told and the loop ends
T_Bytes ==
    /\ phase = "session"
    /\ pcT = "receive"
    /\ FrameQueued
    /\ clientSent[clientRead + 1] = "bytes"
    /\ clientRead' = clientRead + 1
    /\ IF ~VendorClosed
         THEN /\ toVendor' = Append(toVendor,
                     [id |-> clientRead + 1, frame |-> VendorFrame("bytes")])
              /\ chunk_count' = chunk_count + 1
              /\ UNCHANGED <<toClient, pcT, tExit, tNotified>>
         ELSE /\ toClient' = SendToClient(toClient,
                     ErrorMsg("to_deepgram", "vendor_lost", ReasonOr(vendorClose),
                              vendorClose.code))
              /\ tNotified' = TRUE
              /\ pcT' = "done"
              /\ tExit' = "vendorClosedBytes"
              /\ UNCHANGED <<toVendor, chunk_count>>
    /\ UNCHANGED <<dgKey, phase, pcF, clientSent, clientGone, vendorSent, vendorRead,
                   vendorState, vendorClose, closeOutcome, vendorOpened,
                   vendorReleased, authHeader, fExit, connectResult>>
    /\ UNCHANGED textVars

\* receive() returns a frame with "text": it is sent to the vendor as it is;
\* if the vendor connection is closed, the loop ends
T_Text ==
    /\ phase = "session"
    /\ pcT = "receive"
    /\ FrameQueued
    /\ clientSent[clientRead + 1] = "text"
    /\ clientRead' = clientRead + 1
    /\ IF ~VendorClosed
         THEN /\ toVendor' = Append(toVendor,
                     [id |-> clientRead + 1, frame |-> VendorFrame("text")])
              /\ UNCHANGED <<pcT, tExit>>
         ELSE /\ pcT' = "done"
              /\ tExit' = "vendorClosedText"
              /\ UNCHANGED toVendor
    /\ UNCHANGED <<dgKey, phase, pcF, clientSent, clientGone, vendorSent, vendorRead,
                   vendorState, vendorClose, toClient, closeOutcome, vendorOpened,
                   vendorReleased, authHeader, chunk_count, fExit, tNotified, connectResult>>
    /\ UNCHANGED textVars

\* receive() returns {"type": "websocket.disconnect"}: the loop ends
T_Disconnect ==
    /\ phase = "session"
    /\ pcT = "receive"
    /\ ~FrameQueued
    /\ clientGone
    /\ pcT' = "done"
    /\ tExit' = "disconnect"
    /\ UNCHANGED <<dgKey, phase, pcF, clientSent, clientRead, clientGone, vendorSent,
                   vendorRead, vendorState, vendorClose, toVendor, toClient,
                   closeOutcome, vendorOpened, vendorReleased, authHeader,
                   chunk_count, fExit, tNotified, connectResult>>
    /\ UNCHANGED textVars

(* ---------------- the relay as a whole ---------------- *)

\* steps the event loop takes on its own once they are possible
RelayServerStep ==
    \/ CheckKey
    \/ Teardown
    \/ F_Forward
    \/ F_VendorClosed
    \/ T_Bytes
    \/ T_Text
    \/ T_Disconnect

RelayNext ==
    \/ \E k \in ClientKinds : ClientSends(k)
    \/ ClientDisconnects
    \/ \E k \in VendorKinds : VendorSends(k)
    \/ \E c \in CloseEvents : VendorCloses(c)
    \/ CheckKey
    \/ ConnectOk
    \/ \E o \in ConnectFailures : ConnectFails(o)
    \/ Teardown
    \/ F_Forward
    \/ F_VendorClosed
    \/ T_Bytes
    \/ T_Text
    \/ T_Disconnect


(***************************************************************************)
(*                          TEXT PATH                                      *)
(* A text is a sequence of one-character strings.                          *)
(***************************************************************************)

LowerLetters == <<"a", "b", "c", "d", "e", "f", "g", "h", "i", "j", "k", "l", "m", "n", "o", "p", "q", "r", "s", "t", "u", "v", "w", "x", "y", "z">>
UpperLetters == <<"A", "B", "C", "D", "E", "F", "G", "H", "I", "J", "K", "L", "M", "N", "O", "P", "Q", "R", "S", "T", "U", "V", "W", "X", "Y", "Z">>
Letters == {LowerLetters[i] : i \in 1..26}
\* characters that \b counts as word characters but [a-z] does not match
OtherWordChars == {"0", "1", "2", "_"}
\* characters str.strip() removes
Whitespace == {" ", "\t", "\n"}

\* str.lower() on one character
LowerChar(c) ==
    IF \E i \in 1..26 : UpperLetters[i] = c
    THEN LowerLetters[CHOOSE i \in 1..26 : UpperLetters[i] = c]
    ELSE c
\* text.lower()
Lower(t) == [i \in 1..Len(t) |-> LowerChar(t[i])]

\* `w in t` for strings
Contains(t, w) ==
    \E i \in 1..(Len(t) - Len(w) + 1) : \A j \in 1..Len(w) : t[i + j - 1] = w[j]
\* any(w in t for w in ws)
ContainsAny(t, ws) == \E k \in 1..Len(ws) : Contains(t, ws[k])
\* sum(weight if w in t else 0 for w in ws)
RECURSIVE WeightedCount(_, _, _, _)
WeightedCount(t, ws, weight, k) ==
    IF k > Len(ws) THEN 0
    ELSE (IF Contains(t, ws[k]) THEN weight ELSE 0) + WeightedCount(t, ws, weight, k + 1)
\* text.count(c) for a single character
CountChar(t, c) == Cardinality({i \in 1..Len(t) : t[i] = c})

strong_positive ==
    << <<"l", "o", "v", "e">>, <<"a", "m", "a", "z", "i", "n", "g">>, <<"f", "a", "n", "t", "a", "s", "t", "i", "c">>, <<"e", "x", "c", "e", "l", "l", "e", "n", "t">>, <<"w", "o", "n", "d", "e", "r", "f", "u", "l">>,
       <<"d", "e", "l", "i", "g", "h", "t", "e", "d">>, <<"e", "c", "s", "t", "a", "t", "i", "c">>, <<"t", "h", "r", "i", "l", "l", "e", "d">> >>
moderate_positive ==
    << <<"h", "a", "p", "p", "y">>, <<"j", "o", "y">>, <<"g", "r", "e", "a", "t">>, <<"g", "o", "o", "d">>, <<"p", "o", "s", "i", "t", "i", "v", "e">>, <<"e", "x", "c", "i", "t", "e", "d">>,
       <<"p", "l", "e", "a", "s", "e", "d">>, <<"s", "a", "t", "i", "s", "f", "i", "e", "d">>, <<"n", "i", "c", "e">>, <<"f", "i", "n", "e">>, <<"o", "k", "a", "y">>, <<"o", "k">> >>
strong_negative ==
    << <<"h", "a", "t", "e">>, <<"t", "e", "r", "r", "i", "b", "l", "e">>, <<"a", "w", "f", "u", "l">>, <<"h", "o", "r", "r", "i", "b", "l", "e">>, <<"d", "i", "s", "g", "u", "s", "t", "i", "n", "g">>,
       <<"d", "e", "v", "a", "s", "t", "a", "t", "e", "d">>, <<"m", "i", "s", "e", "r", "a", "b", "l", "e">> >>
moderate_negative ==
    << <<"s", "a", "d">>, <<"a", "n", "g", "r", "y">>, <<"b", "a", "d">>, <<"d", "i", "s", "a", "p", "p", "o", "i", "n", "t", "e", "d">>, <<"f", "r", "u", "s", "t", "r", "a", "t", "e", "d">>, <<"u", "p", "s", "e", "t">>,
       <<"w", "o", "r", "r", "i", "e", "d">>, <<"f", "e", "a", "r">>, <<"a", "n", "x", "i", "o", "u", "s">>, <<"d", "e", "p", "r", "e", "s", "s", "e", "d">>, <<"a", "n", "n", "o", "y", "e", "d">> >>
negation_words ==
    << <<"n", "o", "t">>, <<"n", "'", "t">>, <<"n", "o">>, <<"n", "e", "v", "e", "r">>, <<"n", "o", "t", "h", "i", "n", "g">>, <<"n", "o", "b", "o", "d", "y">>, <<"n", "o", "w", "h", "e", "r", "e">> >>
stop_words ==
    { <<"t", "h", "e">>, <<"a">>, <<"a", "n">>, <<"a", "n", "d">>, <<"o", "r">>, <<"b", "u", "t">>, <<"i", "n">>, <<"o", "n">>, <<"a", "t">>,
      <<"t", "o">>, <<"f", "o", "r">>, <<"o", "f">>, <<"w", "i", "t", "h">>, <<"b", "y">>, <<"i", "s">>, <<"a", "r", "e">>, <<"w", "a", "s">>,
      <<"w", "e", "r", "e">>, <<"b", "e">>, <<"b", "e", "e", "n">>, <<"b", "e", "i", "n", "g">>, <<"h", "a", "v", "e">>, <<"h", "a", "s">>, <<"h", "a", "d">>, <<"d", "o">>,
      <<"d", "o", "e", "s">>, <<"d", "i", "d">>, <<"w", "i", "l", "l">>, <<"w", "o", "u", "l", "d">>, <<"c", "o", "u", "l", "d">>, <<"s", "h", "o", "u", "l", "d">>, <<"m", "a", "y">>,
      <<"m", "i", "g", "h", "t">>, <<"m", "u", "s", "t">>, <<"c", "a", "n">>, <<"t", "h", "i", "s">>, <<"t", "h", "a", "t">>, <<"t", "h", "e", "s", "e">>, <<"t", "h", "o", "s", "e">>,
      <<"i">>, <<"y", "o", "u">>, <<"h", "e">>, <<"s", "h", "e">>, <<"i", "t">>, <<"w", "e">>, <<"t", "h", "e", "y">>, <<"m", "e">>,
      <<"h", "i", "m">>, <<"h", "e", "r">>, <<"u", "s">>, <<"t", "h", "e", "m">> }
joyful_words == << <<"h", "a", "p", "p", "y">>, <<"j", "o", "y">>, <<"e", "x", "c", "i", "t", "e", "d">>, <<"l", "o", "v", "e">> >>
sad_words == << <<"s", "a", "d">>, <<"d", "e", "p", "r", "e", "s", "s", "e", "d">>, <<"d", "o", "w", "n">> >>
angry_words == << <<"a", "n", "g", "r", "y">>, <<"m", "a", "d">>, <<"f", "u", "r", "i", "o", "u", "s">> >>
calm_words == << <<"c", "a", "l", "m">>, <<"p", "e", "a", "c", "e", "f", "u", "l">>, <<"r", "e", "l", "a", "x", "e", "d">> >>

(* ---------------- numbers ---------------- *)

\* A float is a fraction num/den with den > 0; den = 0 stands for the values
\* that are no fraction: nan (num = 0), inf (num = 1), -inf (num = -1).
Frac(n, d) == [num |-> n, den |-> d]
NaN == Frac(0, 0)
IsNaN(x) == x.den = 0 /\ x.num = 0
\* x < y on floats: false whenever a nan is compared
FLess(x, y) ==
    IF IsNaN(x) \/ IsNaN(y) THEN FALSE
    ELSE IF x.den = 0 /\ y.den = 0 THEN x.num < y.num
    ELSE IF x.den = 0 THEN x.num < 0
    ELSE IF y.den = 0 THEN y.num > 0
    ELSE x.num * y.den < y.num * x.den
\* min(a, b) and max(a, b) of Python: the first argument unless the second
\* is strictly smaller (larger)
PyMin(a, b) == IF FLess(b, a) THEN b ELSE a
PyMax(a, b) == IF FLess(a, b) THEN b ELSE a

\* the value left as it is
Clamp_Missing(x) == x

\* max(0.0, min(1.0, sentiment))
Clamp(x) == PyMax(Frac(0, 1), PyMin(Frac(1, 1), x))

\* max(a, b) on integers
IntMax(a, b) == IF b > a THEN b ELSE a

(* ---------------- fallback_sentiment_analysis ---------------- *)

\* positive_score and negative_score before the negation swap
PositiveRaw(tl) ==
    WeightedCount(tl, strong_positive, 2, 1) + WeightedCount(tl, moderate_positive, 1, 1)
NegativeRaw(tl) ==
    WeightedCount(tl, strong_negative, 2, 1) + WeightedCount(tl, moderate_negative, 1, 1)
\* has_negation
HasNegation(tl) == ContainsAny(tl, negation_words)
\* the positive score taken as counted, negation or not
PositiveScore_NoSwap(tl) == PositiveRaw(tl)
\* the scores after `if has_negation: swap`
PositiveScore(tl) == IF HasNegation(tl) THEN NegativeRaw(tl) ELSE PositiveRaw(tl)
NegativeScore(tl) == IF HasNegation(tl) THEN PositiveRaw(tl) ELSE NegativeRaw(tl)

\* the score without the final halving: 0.5 + (p - n) / max(total * 2, 1)
ScoreSentiment_NoHalving(p, n) ==
    LET d == IntMax((p + n) * 2, 1)
    IN  Frac(d + 2 * (p - n), 2 * d)
\* 0.5 + ((p - n) / max(total * 2, 1)) * 0.5, for total > 0
ScoreSentiment(p, n) ==
    LET d == IntMax((p + n) * 2, 1)
    IN  Frac(d + (p - n), 2 * d)

\* the bias from punctuation when no sentiment word was found
PunctuationSentiment(t) ==
    LET q == CountChar(t, "?")
        e == CountChar(t, "!")
    IN  IF e > q THEN Frac(11, 20)
        ELSE IF q > e THEN Frac(9, 20)
        ELSE Frac(1, 2)

\* sentiment before the clamp
RawSentiment(t) ==
    LET tl == Lower(t)
        p == PositiveScore(tl)
        n == NegativeScore(tl)
    IN  IF p + n > 0 THEN ScoreSentiment(p, n) ELSE PunctuationSentiment(t)

\* re.findall(r'\b[a-z]{3,}\b', text_lower): the maximal runs of word characters
\* that are lower-case letters throughout and at least 3 long
WordChar(c) == c \in Letters \/ c \in OtherWordChars
\* where a run of word characters starts, and where the run starting at i ends
RunStarts(tl) == {i \in 1..Len(tl) : WordChar(tl[i]) /\ (i = 1 \/ ~WordChar(tl[i - 1]))}
RunEnd(tl, i) ==
    CHOOSE j \in i..Len(tl) :
        /\ \A h \in i..j : WordChar(tl[h])
        /\ j = Len(tl) \/ ~WordChar(tl[j + 1])
\* the n-th smallest member of a set of numbers
Nth(S, n) == CHOOSE i \in S : Cardinality({j \in S : j < i}) = n - 1
\* the runs, left to right
Runs(tl) ==
    LET starts == RunStarts(tl)
    IN  [n \in 1..Cardinality(starts) |->
           SubSeq(tl, Nth(starts, n), RunEnd(tl, Nth(starts, n)))]
IsWord(run) == Len(run) >= 3 /\ \A k \in 1..Len(run) : run[k] \in Letters
FindWords(tl) == SelectSeq(Runs(tl), IsWord)

\* [w for w in words if w not in stop_words]
NotStopWord(w) == w \notin stop_words
SignificantWords(tl) == SelectSeq(FindWords(tl), NotStopWord)

\* Counter(ws): the distinct words in first-seen order, and their counts
RECURSIVE Distinct(_, _, _)
Distinct(ws, i, acc) ==
    IF i > Len(ws) THEN acc
    ELSE IF \E k \in 1..Len(acc) : acc[k] = ws[i] THEN Distinct(ws, i + 1, acc)
    ELSE Distinct(ws, i + 1, Append(acc, ws[i]))
Occurrences(ws, w) == Cardinality({i \in 1..Len(ws) : ws[i] = w})

\* the first n distinct words in the order first seen, whatever their counts
MostCommon_FirstSeen(ws, keys, n) == IF Len(keys) <= n THEN keys ELSE SubSeq(keys, 1, n)
\* Counter.most_common(n): by descending count, first seen first among equals
RECURSIVE MostCommon(_, _, _)
MostCommon(ws, keys, n) ==
    IF n = 0 \/ keys = <<>> THEN <<>>
    ELSE LET best == CHOOSE i \in 1..Len(keys) :
                       /\ \A j \in 1..Len(keys) :
                              Occurrences(ws, keys[j]) <= Occurrences(ws, keys[i])
                       /\ \A j \in 1..(i - 1) :
                              Occurrences(ws, keys[j]) < Occurrences(ws, keys[i])
             rest == [j \in 1..(Len(keys) - 1) |->
                        IF j < best THEN keys[j] ELSE keys[j + 1]]
         IN  <<keys[best]>> \o MostCommon(ws, rest, n - 1)

\* s[:5]
FirstFive(s) == IF Len(s) <= 5 THEN s ELSE SubSeq(s, 1, 5)

\* keywords, before the final slice. most_common returns a word whenever
\* significant_words holds one, so the branch at 337-339 (which takes the
\* words in the arbitrary order of a set) finds no input.
Keywords(t) ==
    LET sig == SignificantWords(Lower(t))
        top == MostCommon(sig, Distinct(sig, 1, <<>>), 5)
    IN  IF Len(top) = 0 /\ Len(sig) > 0
        THEN FirstFive(Distinct(sig, 1, <<>>))
        ELSE top

\* emotion from the clamped sentiment
ThresholdEmotion(sentiment) ==
    IF FLess(Frac(7, 10), sentiment) THEN "positive"
    ELSE IF FLess(sentiment, Frac(3, 10)) THEN "negative"
    ELSE "neutral"

\* the word lists consulted in the opposite order, the last match deciding
Emotion_LastMatch(t, sentiment) ==
    LET tl == Lower(t)
    IN  IF ContainsAny(tl, calm_words) THEN "calm"
        ELSE IF ContainsAny(tl, angry_words) THEN "angry"
        ELSE IF ContainsAny(tl, sad_words) THEN "sad"
        ELSE IF ContainsAny(tl, joyful_words) THEN "joyful"
        ELSE ThresholdEmotion(sentiment)
\* ... refined by the four word lists, the first list that matches deciding
Emotion(t, sentiment) ==
    LET tl == Lower(t)
    IN  IF ContainsAny(tl, joyful_words) THEN "joyful"
        ELSE IF ContainsAny(tl, sad_words) THEN "sad"
        ELSE IF ContainsAny(tl, angry_words) THEN "angry"
        ELSE IF ContainsAny(tl, calm_words) THEN "calm"
        ELSE ThresholdEmotion(sentiment)

\* SentimentResponse(sentiment=..., keywords=..., emotion=...)
SentimentResponse(s, k, e) == [sentiment |-> s, keywords |-> k, emotion |-> e]

fallback_sentiment_analysis(t) ==
    LET sentiment == Clamp(RawSentiment(t))
    IN  SentimentResponse(sentiment, FirstFive(Keywords(t)), Emotion(t, sentiment))

(* ---------------- the texts submitted ---------------- *)

\* Pieces the scorer's inputs are built from: a text is the concatenation of up
\* to MaxFrags pieces. They bring sentiment words of both signs and weights,
\* negation markers (also inside other words), words of the emotion lists,
\* punctuation, capitals, stop words, short words, digits, and enough distinct
\* words to exceed five keywords.
Fragments ==
    { <<"I", " ", "a", "m", " ">>,
      <<"n", "o", "t", " ">>,
      <<"h", "a", "p", "p", "y">>,
      <<"B", "a", "d", " ">>,
      <<" ">>,
      <<"!">>,
      <<"?">>,
      <<"k", "n", "o", "w", " ", "s", "a", "d", " ", "c", "a", "l", "m">>,
      <<"o", "k", "a", "y", " ", "m", "a", "d", " ", "2", "d", "a", "y">>,
      <<"T", "h", "e", " ", "c", "a", "t", " ", "s", "a", "t", " ", "o", "n", " ", "t", "h", "e", " ", "m", "a", "t", " ", "a", "n", "d", " ", "t", "h", "e", " ", "c", "a", "t", " ", "r", "a", "n", " ">>,
      <<"a", "m", "a", "z", "i", "n", "g", " ", "f", "a", "n", "t", "a", "s", "t", "i", "c", " ", "e", "x", "c", "e", "l", "l", "e", "n", "t", " ", "w", "o", "n", "d", "e", "r", "f", "u", "l", " ", "d", "e", "l", "i", "g", "h", "t", "e", "d", " ">>,
      <<"d", "o", "g", " ", "b", "i", "r", "d", " ", "f", "i", "s", "h", " ", "d", "o", "g", " ", "t", "r", "e", "e", " ", "l", "a", "k", "e", " ", "r", "a", "i", "n", " ">> }

RECURSIVE FragSeqs(_)
FragSeqs(n) ==
    IF n = 0 THEN {<<>>}
    ELSE LET shorter == FragSeqs(n - 1)
         IN  shorter \cup {Append(fs, f) : fs \in shorter, f \in Fragments}
RECURSIVE Flatten(_)
Flatten(fs) == IF fs = <<>> THEN <<>> ELSE Head(fs) \o Flatten(Tail(fs))

\* the inputs of the scorer
Texts == {Flatten(fs) : fs \in FragSeqs(MaxFrags)}

\* the inputs of process_text: empty, blank, and ordinary texts
RequestTexts ==
    { <<>>,
      <<" ">>,
      <<" ", "\t", "\n", " ">>,
      <<"\n">>,
      <<"I", " ", "a", "m", " ", "n", "o", "t", " ", "h", "a", "p", "p", "y">>,
      <<"o", "k", "?">>,
      <<"T", "h", "e", " ", "c", "a", "t", " ", "s", "a", "t", " ", "o", "n", " ", "t", "h", "e", " ", "m", "a", "t", " ", "a", "n", "d", " ", "t", "h", "e", " ", "c", "a", "t", " ", "r", "a", "n">>,
      <<" ", "a", " ">> }

(* ---------------- the model's reply ---------------- *)

\* A reply is read as a sequence of tokens, white space left out: the six
\* punctuation marks of JSON, string literals (v: the characters between the
\* quotes), number literals, the bare words of JSON, and anything else (junk).
\* String literals hold no quote, brace or bracket.
Tk(k, v) == [k |-> k, v |-> v]
LBrace == Tk("{", "{")
RBrace == Tk("}", "}")
LBracket == Tk("[", "[")
RBracket == Tk("]", "]")
Colon == Tk(":", ":")
Comma == Tk(",", ",")
Str(v) == Tk("str", v)
Num(v) == Tk("num", v)
Lit(v) == Tk("lit", v)
Junk(v) == Tk("junk", v)

\* float(s) raises no ValueError
FloatParses(s) == s \in {"0.85", "0.9", "-0.5", "1.5", "0", "1", "1e2", "nan"}
\* float(s) for the spellings in use
FloatOf(s) ==
    CASE s = "0.85" -> Frac(17, 20)
      [] s = "0.9" -> Frac(9, 10)
      [] s = "-0.5" -> Frac(-1, 2)
      [] s = "1.5" -> Frac(3, 2)
      [] s = "0" -> Frac(0, 1)
      [] s = "1" -> Frac(1, 1)
      [] s = "1e2" -> Frac(100, 1)
      [] s = "nan" -> NaN

\* what ([0-9.]+) captures at the start of a token's text; "" when the text
\* does not start with a digit or a dot
DigitsPrefix(tok) ==
    IF tok.k \notin {"num", "junk"} THEN ""
    ELSE CASE tok.v = "0.85" -> "0.85"
           [] tok.v = "1.5" -> "1.5"
           [] tok.v = "0" -> "0"
           [] tok.v = "1" -> "1"
           [] tok.v = "1e2" -> "1"
           [] tok.v = "1.2.3" -> "1.2.3"
           [] OTHER -> ""

(* ---------------- json.loads ---------------- *)

\* decoded values: ty is one of str, num, bool, null, list, obj; a list holds its
\* elements in items, an object its members [key, val] in the order read
JV(ty, s, n, items) == [ty |-> ty, s |-> s, n |-> n, items |-> items]
JStr(s) == JV("str", s, NaN, <<>>)
JNum(s, n) == JV("num", s, n, <<>>)
JBool(s) == JV("bool", s, NaN, <<>>)
JNull == JV("null", "", NaN, <<>>)
JList(items) == JV("list", "", NaN, items)
JObj(members) == JV("obj", "", NaN, members)

Parsed(next, val) == [ok |-> TRUE, next |-> next, val |-> val]
ParseFail == [ok |-> FALSE, next |-> 0, val |-> JNull]

\* the bare words json.loads accepts
LitValue(v) ==
    CASE v = "null" -> JNull
      [] v = "true" -> JBool("true")
      [] v = "false" -> JBool("false")
      [] v = "NaN" -> JNum(v, NaN)
      [] v = "Infinity" -> JNum(v, Frac(1, 0))
      [] OTHER -> JNum(v, Frac(-1, 0))

IsTok(ts, i, k) == i <= Len(ts) /\ ts[i].k = k

RECURSIVE ParseValue(_, _)
RECURSIVE ParseElements(_, _, _)
RECURSIVE ParseMembers(_, _, _)
\* one JSON value starting at token i
ParseValue(ts, i) ==
    IF i > Len(ts) THEN ParseFail
    ELSE CASE ts[i].k = "str" -> Parsed(i + 1, JStr(ts[i].v))
           [] ts[i].k = "num" -> Parsed(i + 1, JNum(ts[i].v, FloatOf(ts[i].v)))
           [] ts[i].k = "lit" ->
                IF ts[i].v \in {"null", "true", "false", "NaN", "Infinity", "-Infinity"}
                THEN Parsed(i + 1, LitValue(ts[i].v)) ELSE ParseFail
           [] ts[i].k = "[" ->
                IF IsTok(ts, i + 1, "]") THEN Parsed(i + 2, JList(<<>>))
                ELSE ParseElements(ts, i + 1, <<>>)
           [] ts[i].k = "{" ->
                IF IsTok(ts, i + 1, "}") THEN Parsed(i + 2, JObj(<<>>))
                ELSE ParseMembers(ts, i + 1, <<>>)
           [] OTHER -> ParseFail
\* the elements of an array, from token i, up to the closing bracket
ParseElements(ts, i, acc) ==
    LET r == ParseValue(ts, i)
    IN  IF ~r.ok THEN ParseFail
        ELSE IF IsTok(ts, r.next, ",") THEN ParseElements(ts, r.next + 1, Append(acc, r.val))
        ELSE IF IsTok(ts, r.next, "]") THEN Parsed(r.next + 1, JList(Append(acc, r.val)))
        ELSE ParseFail
\* the members of an object, from token i, up to the closing brace
ParseMembers(ts, i, acc) ==
    IF ~(IsTok(ts, i, "str") /\ IsTok(ts, i + 1, ":")) THEN ParseFail
    ELSE LET r == ParseValue(ts, i + 2)
             m == [key |-> ts[i].v, val |-> r.val]
         IN  IF ~r.ok THEN ParseFail
             ELSE IF IsTok(ts, r.next, ",") THEN ParseMembers(ts, r.next + 1, Append(acc, m))
             ELSE IF IsTok(ts, r.next, "}") THEN Parsed(r.next + 1, JObj(Append(acc, m)))
             ELSE ParseFail

\* json.loads(s): one value and nothing after it; ok = FALSE is JSONDecodeError
JsonLoads(ts) ==
    LET r == ParseValue(ts, 1)
    IN  IF r.ok /\ r.next = Len(ts) + 1 THEN r ELSE ParseFail

\* d.get(key, default) on a decoded object: the last member of that key
DictGet(obj, key, default) ==
    IF \E i \in 1..Len(obj.items) : obj.items[i].key = key
    THEN LET last == CHOOSE i \in 1..Len(obj.items) :
                        /\ obj.items[i].key = key
                        /\ \A j \in (i + 1)..Len(obj.items) : obj.items[j].key # key
         IN  obj.items[last].val
    ELSE default

(* ---------------- the response repair of process_text ---------------- *)

\* json_pattern at token i: an opening brace whose closing brace is reached
\* with braces nested at most one level deep and a "sentiment" string literal
\* outside the nested braces. Gives the index of the closing brace, or 0.
RECURSIVE BraceScan(_, _, _, _)
BraceScan(ts, j, depth, seen) ==
    IF j > Len(ts) THEN 0
    ELSE CASE ts[j].k = "{" -> IF depth = 2 THEN 0 ELSE BraceScan(ts, j + 1, 2, seen)
           [] ts[j].k = "}" ->
                IF depth = 2 THEN BraceScan(ts, j + 1, 1, seen)
                ELSE IF seen THEN j ELSE 0
           [] OTHER ->
                BraceScan(ts, j + 1, depth,
                          seen \/ (depth = 1 /\ ts[j].k = "str" /\ ts[j].v = "sentiment"))
MatchEnd(ts, i) == IF ts[i].k = "{" THEN BraceScan(ts, i + 1, 1, FALSE) ELSE 0
\* re.search(json_pattern, response, re.DOTALL): the leftmost match
HasJsonMatch(ts) == \E i \in 1..Len(ts) : MatchEnd(ts, i) # 0
JsonMatch(ts) ==
    LET i == CHOOSE i \in 1..Len(ts) :
                 MatchEnd(ts, i) # 0 /\ \A h \in 1..(i - 1) : MatchEnd(ts, h) = 0
    IN  SubSeq(ts, i, MatchEnd(ts, i))

\* re.search(r'"sentiment"\s*:\s*([0-9.]+)', response): the leftmost match
IsSentimentAt(ts, i) ==
    /\ i + 2 <= Len(ts)
    /\ ts[i] = Str("sentiment")
    /\ ts[i + 1].k = ":"
    /\ DigitsPrefix(ts[i + 2]) # ""
\* re.search(r'"emotion"\s*:\s*"([^"]+)"', response)
IsEmotionAt(ts, i) ==
    /\ i + 2 <= Len(ts)
    /\ ts[i] = Str("emotion")
    /\ ts[i + 1].k = ":"
    /\ ts[i + 2].k = "str" /\ ts[i + 2].v # ""
\* re.findall(r'"keywords"\s*:\s*\[(.*?)\]', response, re.DOTALL)
IsKeywordsAt(ts, i) ==
    /\ i + 2 <= Len(ts)
    /\ ts[i] = Str("keywords")
    /\ ts[i + 1].k = ":"
    /\ ts[i + 2].k = "["
    /\ \E j \in (i + 3)..Len(ts) : ts[j].k = "]"
\* the least member of a set of token positions, 0 when there is none
First(S) == IF S = {} THEN 0 ELSE CHOOSE i \in S : \A j \in S : i <= j
SentimentAt(ts) == First({i \in 1..Len(ts) : IsSentimentAt(ts, i)})
KeywordsAt(ts) == First({i \in 1..Len(ts) : IsKeywordsAt(ts, i)})
EmotionAt(ts) == First({i \in 1..Len(ts) : IsEmotionAt(ts, i)})
\* group(1) of the keywords match: the tokens up to the first closing bracket
KeywordsInner(ts, i) ==
    LET j == CHOOSE j \in (i + 3)..Len(ts) :
                 ts[j].k = "]" /\ \A h \in (i + 3)..(j - 1) : ts[h].k # "]"
    IN  SubSeq(ts, i + 3, j - 1)

\* The stretches of text between successive quote characters, from the first
\* quote on: the characters of a string literal, then what separates it from
\* the next literal (white space if nothing else), and so on.
RECURSIVE QuoteGaps(_, _, _, _)
QuoteGaps(ts, i, sep, acc) ==
    IF i > Len(ts) THEN acc
    ELSE IF ts[i].k = "str"
    THEN QuoteGaps(ts, i + 1, <<>>,
                   (IF acc = <<>> THEN acc
                    ELSE Append(acc, IF sep = <<>> THEN " " ELSE sep[1])) \o <<ts[i].v>>)
    ELSE QuoteGaps(ts, i + 1, Append(sep, ts[i].v), acc)
\* re.findall(r'"([^"]+)"', keywords_str): a quote, at least one character that
\* is no quote, a quote; the search resumes after the closing quote, or one
\* character on when the attempt fails
RECURSIVE QuotedItems(_, _)
QuotedItems(gaps, g) ==
    IF g > Len(gaps) THEN <<>>
    ELSE IF gaps[g] # "" THEN <<gaps[g]>> \o QuotedItems(gaps, g + 2)
    ELSE QuotedItems(gaps, g + 1)

\* lines 175-193: the fields found by pattern search, as the dict `result`;
\* float() of the captured digits may raise
PatternSentimentRaises(ts) ==
    LET i == SentimentAt(ts)
    IN  i # 0 /\ ~FloatParses(DigitsPrefix(ts[i + 2]))
PatternResult(ts) ==
    LET si == SentimentAt(ts)
        ki == KeywordsAt(ts)
        ei == EmotionAt(ts)
        sentiment_val == IF si # 0 THEN FloatOf(DigitsPrefix(ts[si + 2])) ELSE Frac(1, 2)
        emotion_val == IF ei # 0 THEN ts[ei + 2].v ELSE "neutral"
        items == IF ki # 0
                 THEN QuotedItems(QuoteGaps(KeywordsInner(ts, ki), 1, <<>>, <<>>), 1)
                 ELSE <<>>
    IN  JObj(<< [key |-> "sentiment", val |-> JNum("", sentiment_val)],
                [key |-> "keywords", val |-> JList([i \in 1..Len(items) |-> JStr(items[i])])],
                [key |-> "emotion", val |-> JStr(emotion_val)] >>)

(* ---------------- process_text: validate and normalise ---------------- *)

\* an HTTP answer: the status, the detail of an HTTPException, the body of a 200
Answer(status, detail, result) == [status |-> status, detail |-> detail, result |-> result]
NoResult == SentimentResponse(NaN, <<>>, "")
NoAnswer == Answer(0, "", NoResult)
Ok(result) == Answer(200, "", result)
HttpError(status, detail) == Answer(status, detail, NoResult)

\* float(x) raises: TypeError on None, list and dict, ValueError on a string
\* that spells no number
FloatRaises(v) ==
    \/ v.ty \in {"null", "list", "obj"}
    \/ v.ty = "str" /\ ~FloatParses(v.s)
\* float(x)
ToFloat(v) ==
    CASE v.ty = "num" -> v.n
      [] v.ty = "bool" -> IF v.s = "true" THEN Frac(1, 1) ELSE Frac(0, 1)
      [] v.ty = "str" -> FloatOf(v.s)

\* str(x) of a number or a boolean
PyStr(v) ==
    IF v.ty = "bool" THEN (IF v.s = "true" THEN "True" ELSE "False")
    ELSE CASE v.s = "1e2" -> "100.0"
           [] v.s = "NaN" -> "nan"
           [] v.s = "Infinity" -> "inf"
           [] v.s = "-Infinity" -> "-inf"
           [] OTHER -> v.s

\* SentimentResponse validates keywords: list[str]. A string passes. A number
\* or a boolean is turned into its text by pydantic 1 and refused by
\* pydantic 2; anything else is refused by both.
ItemAccepted(v, lax) == v.ty = "str" \/ (lax /\ v.ty \in {"num", "bool"})

\* lines 195-213 on the decoded `result`
Normalise(result, lax) ==
    IF result.ty # "obj" THEN HttpError(500, "Error processing text")
    ELSE LET s == DictGet(result, "sentiment", JNum("0.5", Frac(1, 2)))
             k == DictGet(result, "keywords", JList(<<>>))
             e == DictGet(result, "emotion", JStr("neutral"))
             keywords == FirstFive(IF k.ty = "list" THEN k.items ELSE <<>>)
             emotion == IF e.ty = "str" THEN e.s ELSE "neutral"
         IN  IF FloatRaises(s) THEN HttpError(500, "Error processing text")
             ELSE IF \E i \in 1..Len(keywords) : ~ItemAccepted(keywords[i], lax)
             THEN HttpError(500, "Error processing text")
             ELSE Ok(SentimentResponse(Clamp(ToFloat(s)),
                                       [i \in 1..Len(keywords) |->
                                          IF keywords[i].ty = "str" THEN keywords[i].s
                                          ELSE PyStr(keywords[i])],
                                       emotion))

\* lines 147-226 on the model's reply
ParseResponse(reply, lax) ==
    IF reply.empty THEN HttpError(500, "No response from OpenAI API")
    ELSE LET ts == reply.toks
             whole == JsonLoads(ts)
         IN  IF HasJsonMatch(ts)
             THEN LET group == JsonLoads(JsonMatch(ts))
                  IN  IF group.ok THEN Normalise(group.val, lax)
                      ELSE IF whole.ok THEN Normalise(whole.val, lax)
                      ELSE HttpError(500, "Failed to parse OpenAI response")
             ELSE IF whole.ok THEN Normalise(whole.val, lax)
             ELSE IF PatternSentimentRaises(ts) THEN HttpError(500, "Error processing text")
             ELSE Normalise(PatternResult(ts), lax)

(* ---------------- the replies of the model ---------------- *)

Field(key, value) == <<Str(key), Colon>> \o value
\* what the model may put for the sentiment: nothing, numbers in and out of
\* range, a number in quotes, a word, null, true, NaN, a malformed number
SentimentFields ==
    { <<>> } \cup
    { Field("sentiment", <<v>>) :
        v \in { Num("0.85"), Num("-0.5"), Num("1.5"), Num("1e2"), Lit("NaN"),
                Str("0.9"), Str("high"), Lit("null"), Lit("true"), Junk("1.2.3") } }
List(items) ==
    <<LBracket>> \o
    (IF items = <<>> THEN <<>>
     ELSE [i \in 1..(2 * Len(items) - 1) |->
             IF i % 2 = 1 THEN items[(i + 1) \div 2] ELSE Comma]) \o
    <<RBracket>>
\* ... for the keywords: nothing, lists of none, three and six strings, a
\* string, a list holding a number, a list holding an empty string
KeywordFields ==
    { <<>> } \cup
    { Field("keywords", v) :
        v \in { List(<<>>),
                List(<<Str("cat"), Str("mat"), Str("sat")>>),
                List(<<Str("k1"), Str("k2"), Str("k3"), Str("k4"), Str("k5"), Str("k6")>>),
                <<Str("cat, mat")>>,
                List(<<Num("1"), Str("cat")>>),
                List(<<Str("cat"), Str(""), Str("mat")>>) } }
\* ... for the emotion: nothing, a word, the empty string, null
EmotionFields ==
    { <<>> } \cup
    { Field("emotion", <<v>>) : v \in { Str("joyful"), Str(""), Lit("null") } }

RECURSIVE Join(_)
Join(fields) ==
    IF fields = <<>> THEN <<>>
    ELSE IF Head(fields) = <<>> THEN Join(Tail(fields))
    ELSE LET rest == Join(Tail(fields))
         IN  Head(fields) \o (IF rest = <<>> THEN <<>> ELSE <<Comma>> \o rest)
\* the members of the object, without its braces
Bodies == { Join(<<s, k, e>>) : s \in SentimentFields, k \in KeywordFields, e \in EmotionFields }
Object(body) == <<LBrace>> \o body \o <<RBrace>>

\* How the object is presented: alone; inside prose; in a code fence; with a
\* comma before the closing brace; cut before the closing brace; as the only
\* element of an array; as a member of an outer object; with a nested member;
\* with a member nested twice; after another object; with single quotes.
Wrappers ==
    { "bare", "prose", "fence", "trailing_comma", "truncated", "array", "nested",
      "member", "deep_member", "second", "single_quotes" }
Wrap(w, body) ==
    CASE w = "bare" -> Object(body)
      [] w = "prose" -> <<Junk("Sure"), Colon>> \o Object(body) \o <<Junk("Done")>>
      [] w = "fence" -> <<Junk("~~~json")>> \o Object(body) \o <<Junk("~~~")>>
      [] w = "trailing_comma" -> <<LBrace>> \o body \o <<Comma, RBrace>>
      [] w = "truncated" -> <<LBrace>> \o body
      [] w = "array" -> <<LBracket>> \o Object(body) \o <<RBracket>>
      [] w = "nested" -> Object(Field("result", Object(body)))
      [] w = "member" ->
           Object(Field("meta", Object(Field("model", <<Str("gpt")>>))) \o
                  (IF body = <<>> THEN <<>> ELSE <<Comma>> \o body))
      [] w = "deep_member" ->
           Object(Field("meta", Object(Field("usage", Object(Field("n", <<Num("1")>>))))) \o
                  (IF body = <<>> THEN <<>> ELSE <<Comma>> \o body))
      [] w = "second" -> Object(Field("note", <<Str("draft")>>)) \o Object(body)
      [] w = "single_quotes" -> Object([i \in 1..Len(body) |->
                      IF body[i].k = "str" THEN Junk(body[i].v) ELSE body[i]])

Reply(empty, toks) == [empty |-> empty, toks |-> toks]
\* message.content: None or "", white space only, or one of the texts above
Replies ==
    { Reply(TRUE, <<>>), Reply(FALSE, <<>>) } \cup
    { Reply(FALSE, Wrap(w, b)) : w \in Wrappers, b \in Bodies }

(* ---------------- the HTTP handlers ---------------- *)

\* how the awaited model call ended: not yet, with message.content, or with
\* an exception
Outcome(kind, failure, content) == [kind |-> kind, failure |-> failure, content |-> content]
NoOutcome == Outcome("none", "", Reply(TRUE, <<>>))
\* asyncio.TimeoutError after 10 s; the two exceptions call_openai raises
ModelFailures == {"timeout", "quota", "other"}

\* OPENAI_API_KEY: not in the environment, empty, or holding a value
ApiKeys == {"unset", "empty", "set"}
\* get_openai_client() returns a client (it raises ValueError otherwise)
ClientAvailable == openai_client \/ apiKey = "set"

\* str.strip()
RECURSIVE LStrip(_)
LStrip(t) == IF t # <<>> /\ Head(t) \in Whitespace THEN LStrip(Tail(t)) ELSE t
RECURSIVE RStrip(_)
RStrip(t) ==
    IF t # <<>> /\ t[Len(t)] \in Whitespace THEN RStrip(SubSeq(t, 1, Len(t) - 1)) ELSE t
Strip(t) == RStrip(LStrip(t))
\* the text refused only when it has no character at all
IsBlank_NoStrip(t) == t = <<>>
\* not request.text or not request.text.strip()
IsBlank(t) == t = <<>> \/ Strip(t) = <<>>

\* use_fallback after the call failed: only a quota error switches it on
UseFallback_QuotaOnly(failure) == failure = "quota"
\* use_fallback after the call failed: every except clause switches it on
UseFallback(failure) ==
    \/ failure = "timeout"
    \/ failure = "quota"
    \/ failure \notin {"timeout", "quota"}

TextInit ==
    /\ apiKey \in ApiKeys
    /\ pydanticLax \in BOOLEAN
    /\ openai_client = FALSE
    /\ tpc = "idle"
    /\ endpoint = "none"
    /\ reqText = <<>>
    /\ outcome = NoOutcome
    /\ response = NoAnswer
    /\ credChecked = FALSE
    /\ modelCalls = 0
    /\ fallbackCalls = 0
    /\ served = 0

\* POST /process_text arrives: lines 86-119, up to the awaited model call
SubmitText(t) ==
    /\ tpc = "idle"
    /\ served < MaxRequests
    /\ served' = served + 1
    /\ endpoint' = "process_text"
    /\ reqText' = t
    /\ outcome' = NoOutcome
    /\ fallbackCalls' = 0
    /\ IF IsBlank(t)
       THEN /\ response' = HttpError(400, "Text cannot be empty")
            /\ tpc' = "responded"
            /\ credChecked' = FALSE
            /\ modelCalls' = 0
            /\ UNCHANGED openai_client
       ELSE IF ~ClientAvailable
       THEN /\ response' = HttpError(500, "OPENAI_API_KEY environment variable is not set")
            /\ tpc' = "responded"
            /\ credChecked' = TRUE
            /\ modelCalls' = 0
            /\ UNCHANGED openai_client
       ELSE /\ response' = NoAnswer
            /\ tpc' = "awaiting"
            /\ credChecked' = TRUE
            /\ modelCalls' = 1
            /\ openai_client' = TRUE
    /\ UNCHANGED <<apiKey, pydanticLax>>
    /\ UNCHANGED relayVars

\* the model call returns message.content: lines 120, 136, 147-226
ModelReplies(r) ==
    /\ tpc = "awaiting"
    /\ outcome' = Outcome("content", "", r)
    /\ response' = ParseResponse(r, pydanticLax)
    /\ tpc' = "responded"
    /\ UNCHANGED <<apiKey, pydanticLax, openai_client, endpoint, reqText, credChecked,
                   modelCalls, fallbackCalls, served>>
    /\ UNCHANGED relayVars

\* the model call times out or raises: lines 121-152. The scorer raises on no
\* string, so the except clause at 140-145 is never entered.
ModelFails(failure) ==
    /\ tpc = "awaiting"
    /\ outcome' = Outcome("failure", failure, Reply(TRUE, <<>>))
    /\ IF UseFallback(failure)
       THEN /\ fallbackCalls' = fallbackCalls + 1
            /\ response' = Ok(fallback_sentiment_analysis(reqText))
       ELSE /\ response' = ParseResponse(Reply(TRUE, <<>>), pydanticLax)
            /\ UNCHANGED fallbackCalls
    /\ tpc' = "responded"
    /\ UNCHANGED <<apiKey, pydanticLax, openai_client, endpoint, reqText, credChecked,
                   modelCalls, served>>
    /\ UNCHANGED relayVars

\* POST /test_fallback: lines 588-598, which has no await
TestFallback(t) ==
    /\ tpc = "idle"
    /\ served < MaxRequests
    /\ served' = served + 1
    /\ endpoint' = "test_fallback"
    /\ reqText' = t
    /\ outcome' = NoOutcome
    /\ fallbackCalls' = 1
    /\ response' = Ok(fallback_sentiment_analysis(t))
    /\ tpc' = "responded"
    /\ credChecked' = FALSE
    /\ modelCalls' = 0
    /\ UNCHANGED <<apiKey, pydanticLax, openai_client>>
    /\ UNCHANGED relayVars

\* the answer is sent and the handler's frame is gone
Respond ==
    /\ tpc = "responded"
    /\ tpc' = "idle"
    /\ endpoint' = "none"
    /\ reqText' = <<>>
    /\ outcome' = NoOutcome
    /\ response' = NoAnswer
    /\ credChecked' = FALSE
    /\ modelCalls' = 0
    /\ fallbackCalls' = 0
    /\ UNCHANGED <<apiKey, pydanticLax, openai_client, served>>
    /\ UNCHANGED relayVars

TextNext ==
    \/ \E t \in RequestTexts : SubmitText(t)
    \/ \E r \in Replies : ModelReplies(r)
    \/ \E f \in ModelFailures : ModelFails(f)
    \/ \E t \in Texts : TestFallback(t)
    \/ Respond

(***************************************************************************)
(*                         SPECIFICATIONS                                  *)
(***************************************************************************)
vars == <<relayVars, textVars>>

\* the relay starts with no HTTP request being made
InitRelay == apiKey = "set" /\ pydanticLax = FALSE /\ TextInit /\ RelayInit
\* the relay alone
SpecRelay == InitRelay /\ [][RelayNext]_vars

\* the HTTP handlers start with no relay session being opened
InitText == dgKey = Key(TRUE, 0, MinKeyLen, 0) /\ RelayInit /\ TextInit
\* the HTTP handlers alone
SpecText == InitText /\ [][TextNext]_vars

\* POST /test_fallback alone: it reads no credential and calls no model
ScorerNext ==
    \/ \E t \in Texts : TestFallback(t)
    \/ Respond
InitScorer == apiKey = "unset" /\ pydanticLax = FALSE /\ InitText
SpecScorer == InitScorer /\ [][ScorerNext]_vars

\* the event loop runs every task that can run; the endpoints owe nothing
FairSpecRelay == SpecRelay /\ WF_vars(RelayServerStep) /\ WF_vars(ConnectOk)

(***************************************************************************)
(*                     PROPERTIES OF THE RELAY                             *)
(***************************************************************************)

\* the Error messages among the frames delivered to the client
IsError(m) == m.type = "Error"
IsData(m) == m.type = "Data"
ClientErrors == SelectSeq(toClient, IsError)
ClientData == SelectSeq(toClient, IsData)

\* C4: when the speech-vendor secret is unset, empty, or shorter than 20
\* characters after trimming, the client gets exactly one Error message and
\* nothing else, the server closes the client connection, no vendor connection
\* is opened and nothing is forwarded to a vendor.
C4_BadKeyRejected ==
    (phase # "accepted" /\ (~dgKey.set \/ dgKey.body < 20)) =>
        /\ phase = "rejected"
        /\ Len(toClient) = 1
        /\ toClient[1].type = "Error"
        /\ closeOutcome = "closed"
        /\ ~vendorOpened
        /\ vendorState = "none"
        /\ authHeader = 0
        /\ toVendor = <<>>
        /\ pcF = "idle" /\ pcT = "idle"

\* a key of 19 characters padded to a raw length of 20 has been rejected
C4_Witness ==
    /\ phase = "rejected"
    /\ dgKey.set /\ dgKey.body = 19 /\ dgKey.lead + dgKey.trail = 1
    /\ closeOutcome = "closed"

\* C5: in an established session the exit or failure of one loop leaves the
\* other loop where it is, and the server closes the client connection and
\* releases the vendor connection only after both loops have exited.
C5_CloseOnlyAfterBoth ==
    (connectResult.kind = "ok" /\ (closeOutcome # "none" \/ vendorReleased \/ phase = "ended")) =>
        /\ Exited(pcF) /\ Exited(pcT)
        /\ closeOutcome \in {"closed", "alreadyClosed"}
        /\ (closeOutcome = "alreadyClosed") = clientGone

C5_ExitLeavesOtherRunning ==
    /\ (~Exited(pcF) /\ Exited(pcF')) =>
            (pcT' = pcT /\ phase' = "session" /\ closeOutcome' = "none" /\ ~vendorReleased')
    /\ (~Exited(pcT) /\ Exited(pcT')) =>
            (pcF' = pcF /\ phase' = "session" /\ closeOutcome' = "none" /\ ~vendorReleased')

C5_LoopsIndependent == []C5_CloseOnlyAfterBoth /\ [][C5_ExitLeavesOtherRunning]_vars

\* the client-to-vendor loop has ended on the closed vendor connection while
\* the other loop still has a vendor message to forward to the connected client
C5_Witness ==
    /\ pcT = "done"
    /\ tExit = "vendorClosedBytes"
    /\ pcF = "recv"
    /\ vendorRead < Len(vendorSent)
    /\ closeOutcome = "none"
    /\ ~clientGone

\* C6: whenever forward_to_deepgram ends because the vendor connection was
\* closed while it forwarded a client message, binary or text, it has sent a
\* structured Error message to the client.
C6_VendorCloseNotifies ==
    tExit \in {"vendorClosedBytes", "vendorClosedText"} => (pcT = "done" /\ tNotified)

\* C7: after the client disconnects, both loops eventually exit and the vendor
\* connection is closed, whether or not the vendor closes its side.
C7_ClientCloseEndsSession ==
    (phase = "session" /\ clientGone) ~> (Exited(pcF) /\ Exited(pcT) /\ vendorReleased)

\* a client frame that forward_to_deepgram will try to send to the vendor
PendingForward ==
    \E i \in (clientRead + 1)..Len(clientSent) : clientSent[i] \in {"bytes", "text"}

C9_OrderPreserved ==
    /\ \A i \in 1..Len(toVendor) :
          /\ toVendor[i].id \in 1..clientRead
          /\ \/ clientSent[toVendor[i].id] = "bytes" /\ toVendor[i].frame = "binary"
             \/ clientSent[toVendor[i].id] = "text" /\ toVendor[i].frame = "text"
          /\ i > 1 => toVendor[i - 1].id < toVendor[i].id
    /\ \A i \in 1..Len(ClientData) :
          /\ ClientData[i].id \in 1..vendorRead
          /\ \/ vendorSent[ClientData[i].id] = "str" /\ ClientData[i].frame = "text"
             \/ vendorSent[ClientData[i].id] = "bytes" /\ ClientData[i].frame = "binary"
          /\ i > 1 => ClientData[i - 1].id < ClientData[i].id

\* both kinds have crossed in both directions
C9_Witness ==
    /\ Len(toVendor) >= 2
    /\ toVendor[1].frame # toVendor[2].frame
    /\ Len(ClientData) >= 2
    /\ ClientData[1].frame # ClientData[2].frame

\* C10: when opening the vendor connection fails, neither loop is started,
\* the client gets exactly one Error message, carrying the HTTP status when the
\* vendor rejected the handshake with one, and the client connection is closed.
C10_ConnectFailureReported ==
    (connectResult.kind \notin {"none", "ok"}) =>
        /\ phase = "connectFailed"
        /\ pcF = "idle" /\ pcT = "idle"
        /\ clientRead = 0 /\ vendorRead = 0 /\ toVendor = <<>>
        /\ Len(toClient) = 1
        /\ toClient[1].type = "Error"
        /\ connectResult.kind = "InvalidStatusCode" => toClient[1].status = connectResult.status
        /\ closeOutcome = "closed"

\* the vendor has answered the handshake with HTTP 401
C10_Witness ==
    /\ phase = "connectFailed"
    /\ connectResult = [kind |-> "InvalidStatusCode", status |-> 401]
    /\ closeOutcome = "closed"

(***************************************************************************)
(*                   PROPERTIES OF THE TEXT PATH                           *)
(***************************************************************************)

\* a float within [0, 1]
InUnit(x) == x.den > 0 /\ 0 <= x.num /\ x.num <= x.den
\* the handler answers 200 with a SentimentResponse
HasResult == tpc = "responded" /\ response.status = 200

\* C1: whenever process_text (through the response repair or through the
\* fallback) or the scorer's own endpoint answers with a result, the
\* sentiment of the result lies in [0, 1] and it holds at most 5 keywords.
C1_ResultInRange ==
    HasResult =>
        /\ InUnit(response.result.sentiment)
        /\ Len(response.result.keywords) <= 5
\* the model replied with a sentiment of 1.5 and six keywords; the answer
\* holds 1.0 and five of them
C1_Witness ==
    /\ HasResult
    /\ endpoint = "process_text"
    /\ outcome.kind = "content"
    /\ outcome.content =
         Reply(FALSE, Object(Join(<< Field("sentiment", <<Num("1.5")>>),
                                     Field("keywords",
                                           List(<<Str("k1"), Str("k2"), Str("k3"),
                                                  Str("k4"), Str("k5"), Str("k6")>>)),
                                     <<>> >>)))
    /\ response.result.sentiment = Frac(1, 1)
    /\ Len(response.result.keywords) = 5

\* every character is white space (vacuously so for the empty text)
AllWhitespace(t) == \A i \in 1..Len(t) : t[i] \in Whitespace

\* C2: a text of process_text that is empty or white space only is answered
\* 400 "Text cannot be empty" with no result, and for it the handler has
\* called neither get_openai_client nor the model nor the fallback scorer.
C2_BlankRejected ==
    (endpoint = "process_text" /\ AllWhitespace(reqText)) =>
        /\ tpc = "responded"
        /\ response.status = 400
        /\ response.detail = "Text cannot be empty"
        /\ response.result = NoResult
        /\ ~credChecked
        /\ modelCalls = 0
        /\ fallbackCalls = 0
\* a text of blanks, a tab and a newline is refused with 400 although no
\* credential is configured
C2_Witness ==
    /\ endpoint = "process_text"
    /\ reqText = <<" ", "\t", "\n", " ">>
    /\ apiKey = "unset"
    /\ ~openai_client
    /\ tpc = "responded"
    /\ response.status = 400

\* C3: when the model call of process_text has failed (timeout, quota error or
\* any other error), the handler has called the model once and the fallback
\* scorer once, and it answers 200 with the scorer's result for the text.
C3_FailureRecovered ==
    (endpoint = "process_text" /\ outcome.kind = "failure") =>
        /\ tpc = "responded"
        /\ credChecked
        /\ modelCalls = 1
        /\ fallbackCalls = 1
        /\ response = Ok(fallback_sentiment_analysis(reqText))
\* an error that is no quota error, on "I am not happy": the scorer's 0.25
C3_Witness ==
    /\ endpoint = "process_text"
    /\ outcome.kind = "failure"
    /\ outcome.failure = "other"
    /\ reqText = <<"I", " ", "a", "m", " ", "n", "o", "t", " ", "h", "a", "p", "p", "y">>
    /\ fallbackCalls = 1
    /\ response.status = 200
    /\ response.result.sentiment = Frac(1, 4)
    /\ response.result.keywords = << <<"n", "o", "t">>, <<"h", "a", "p", "p", "y">> >>

\* C11: whenever process_text or the scorer's own endpoint answers with a
\* result, the emotion of the result is a string of at least one character.
C11_EmotionNonEmpty == HasResult => response.result.emotion # ""

\* equality and order of floats by value
FEq(x, y) == x.den > 0 /\ y.den > 0 /\ x.num * y.den = y.num * x.den
FLessEq(x, y) == FLess(x, y) \/ FEq(x, y)
\* 1 - x
OneMinus(x) == Frac(x.den - x.num, x.den)
\* the scorer has answered for reqText, on either route
ScorerAnswered == HasResult /\ fallbackCalls = 1

BeginsAt(tl, i) == WordChar(tl[i]) /\ (i = 1 \/ ~WordChar(tl[i - 1]))
\* a word ends at position j: a word character with none after it
EndsAt(tl, j) == WordChar(tl[j]) /\ (j = Len(tl) \/ ~WordChar(tl[j + 1]))
\* positions i..j hold one whole word
WholeWord(tl, i, j) ==
    /\ i <= j /\ BeginsAt(tl, i) /\ EndsAt(tl, j)
    /\ \A h \in i..j : WordChar(tl[h])
\* the whole words of tl, each with the position it begins at
Sightings(tl) ==
    LET begins == {i \in 1..Len(tl) : BeginsAt(tl, i)}
        ends == {j \in 1..Len(tl) : EndsAt(tl, j)}
    IN  { <<SubSeq(tl, sp[1], sp[2]), sp[1]>> :
            sp \in {sp \in begins \X ends : WholeWord(tl, sp[1], sp[2])} }
\* a keyword candidate: alphabetic, at least 3 letters, no stop word
IsCandidate(w) ==
    /\ Len(w) >= 3
    /\ \A k \in 1..Len(w) : w[k] \in Letters
    /\ w \notin stop_words
\* how often, and where first, w is sighted
CountOf(seen, w) == Cardinality({o \in seen : o[1] = w})
FirstAt(seen, w) ==
    CHOOSE i \in {o[2] : o \in {o \in seen : o[1] = w}} :
        \A o \in seen : o[1] = w => i <= o[2]
\* v ranks before w: more frequent, or as frequent and seen earlier
RanksBefore(seen, v, w) ==
    \/ CountOf(seen, v) > CountOf(seen, w)
    \/ CountOf(seen, v) = CountOf(seen, w) /\ FirstAt(seen, v) < FirstAt(seen, w)

RepliedTokens == outcome.content.toks
HasReply == endpoint = "process_text" /\ outcome.kind = "content" /\ ~outcome.content.empty
\* neither the brace-delimited "sentiment" substring (none found, or found
\* and not valid JSON) nor the whole reply parses
NothingParses(ts) ==
    /\ ~JsonLoads(ts).ok
    /\ HasJsonMatch(ts) => ~JsonLoads(JsonMatch(ts)).ok

\* C14: when neither the brace-delimited "sentiment" substring of the reply
\* nor the whole reply parses as JSON (and the digits after "sentiment" spell a
\* number), process_text answers 200 with the fields found by pattern search.
C14_PatternSearchIsLastResort ==
    (HasReply /\ NothingParses(RepliedTokens) /\ ~PatternSentimentRaises(RepliedTokens)) =>
        /\ tpc = "responded"
        /\ response = Normalise(PatternResult(RepliedTokens), pydanticLax)
        /\ response.status = 200

\* C15: a vendor-side close is reported to the client once: in a session
\* whose vendor connection has closed, the client has received at most one
\* Error message, whichever loop noticed the close first.
C15_VendorCloseReportedOnce == VendorClosed => Len(ClientErrors) <= 1

\* the four emotion word lists in the order the scorer consults them
EmotionSets ==
    << [label |-> "joyful", words |-> joyful_words],
       [label |-> "sad",    words |-> sad_words],
       [label |-> "angry",  words |-> angry_words],
       [label |-> "calm",   words |-> calm_words] >>
\* the lists with a word that occurs somewhere in the lower-cased text
MatchingSets(tl) == {k \in 1..4 : ContainsAny(tl, EmotionSets[k].words)}
\* positive above 7/10, negative below 3/10, neutral between, for a finite s
LabelOf(s) ==
    IF 10 * s.num > 7 * s.den THEN "positive"
    ELSE IF 10 * s.num < 3 * s.den THEN "negative"
    ELSE "neutral"

\* C16: the scorer's emotion is the label of the first list, in the order
\* joyful, sad, angry, calm, that has a word in the lower-cased text, whatever
\* the sentiment is; with no list matching it is the threshold label.
C16_EmotionByPriority ==
    ScorerAnswered =>
        LET m == MatchingSets(Lower(reqText))
            r == response.result
        IN  /\ r.sentiment.den > 0
            /\ m = {} => r.emotion = LabelOf(r.sentiment)
            /\ m # {} => \E k \in m : /\ \A j \in m : k <= j
                                      /\ r.emotion = EmotionSets[k].label

\* 'happyknow sad calm' has a word of three lists and is answered joyful
C16_Witness ==
    /\ ScorerAnswered
    /\ reqText = <<"h", "a", "p", "p", "y", "k", "n", "o", "w", " ", "s", "a", "d", " ", "c", "a", "l", "m">>
    /\ MatchingSets(Lower(reqText)) = {1, 2, 4}
    /\ response.result.emotion = "joyful"
    /\ LabelOf(response.result.sentiment) = "neutral"

\* 1/4 <= x <= 3/4
InQuarterBand(x) == FLessEq(Frac(1, 4), x) /\ FLessEq(x, Frac(3, 4))
\* the label the scorer answers with when no emotion word list matched
ThresholdLabelIs(l) ==
    MatchingSets(Lower(reqText)) = {} /\ response.result.emotion = l

\* C17 as stated: the scorer's sentiment before the clamp lies in [1/4, 3/4]
\* and the clamp leaves it as it is, and the labels positive and negative are
\* answered only for a sentiment of exactly 3/4 or exactly 1/4, that is when
\* one of the two scores is zero after the negation swap.
C17_LabelsOnlyAtExtremes ==
    ScorerAnswered =>
        LET tl == Lower(reqText)
            p == PositiveScore(tl)
            n == NegativeScore(tl)
            raw == RawSentiment(reqText)
            s == response.result.sentiment
        IN  /\ InQuarterBand(raw)
            /\ FEq(s, raw)
            /\ ThresholdLabelIs("positive") => FEq(s, Frac(3, 4)) /\ n = 0
            /\ ThresholdLabelIs("negative") => FEq(s, Frac(1, 4)) /\ p = 0

\* C17 amended: the sentiment before the clamp lies in [1/4, 3/4] and the
\* clamp leaves it as it is; it is 3/4 exactly when only the positive score is
\* above zero and 1/4 exactly when only the negative score is; the label
\* positive is answered exactly when the positive score is more than nine
\* times the negative score, and negative the other way round, which includes
\* sentiments strictly between 7/10 and 3/4 and between 1/4 and 3/10.
C17_LabelsBeyondNineToOne ==
    ScorerAnswered =>
        LET tl == Lower(reqText)
            p == PositiveScore(tl)
            n == NegativeScore(tl)
            raw == RawSentiment(reqText)
            s == response.result.sentiment
        IN  /\ InQuarterBand(raw)
            /\ FEq(s, raw)
            /\ FEq(s, Frac(3, 4)) <=> (p > 0 /\ n = 0)
            /\ FEq(s, Frac(1, 4)) <=> (n > 0 /\ p = 0)
            /\ MatchingSets(tl) = {} =>
                  /\ response.result.emotion = "positive" <=> p > 9 * n
                  /\ response.result.emotion = "negative" <=> n > 9 * p
                  /\ response.result.emotion \in {"positive", "negative", "neutral"}

\* five strong positive words and one moderate negative word score 10 to 1:
\* the sentiment is 31/44, under 3/4, and the label is positive
C17_Witness ==
    /\ ScorerAnswered
    /\ reqText = <<"a", "m", "a", "z", "i", "n", "g", " ", "f", "a", "n", "t", "a", "s", "t", "i", "c", " ", "e", "x", "c", "e", "l", "l", "e", "n", "t", " ", "w", "o", "n", "d", "e", "r", "f", "u", "l", " ", "d", "e", "l", "i", "g", "h", "t", "e", "d", " ", "B", "a", "d", " ">>
    /\ PositiveScore(Lower(reqText)) = 10
    /\ NegativeScore(Lower(reqText)) = 1
    /\ FEq(response.result.sentiment, Frac(31, 44))
    /\ ThresholdLabelIs("positive")

====
